---- MODULE Spec2Model ----
(***************************************************************************)
(* hanabi-core: the rules engine of the card game Hanabi.                  *)
(* The model follows src/hanabi-core/src/lib.rs: the card catalog, the     *)
(* Field, PlayerInfo, deck preparation, the Config builder and the single  *)
(* mutating entry point Game::process_action.                              *)
(*                                                                         *)
(* Conventions.  A Vec<Card> is a TLA+ sequence (position 1 is Rust index  *)
(* 0); Vec<PlayerInfo> and Field.inner are functions over the Rust indices *)
(* 0..len-1.  Option<T> is a sequence of length at most one.  A method     *)
(* taking &mut self is an operator returning [self |-> .., ret |-> ..].    *)
(***************************************************************************)
EXTENDS Integers, Sequences, FiniteSets

(* ------------------------------ bounds --------------------------------- *)

\* Config::new is tried with every n in 0..MaxN.
MaxN == 6
\* process_action is called on the Games of at most MaxPlayers players.
MaxPlayers == 2
\* The random source of the shuffle is run from every seed in 0..MaxSeed.
MaxSeed == 0
\* At most MaxCalls calls of process_action are made on one Game.
MaxCalls == 2
\* A caller cites the card ids of the first MaxHandPos cards of each hand.
MaxHandPos == 2
\* The most Field::add calls made directly on the field of one Game.
MaxAdds == 3
\* The largest seed of the generator in the program that only builds Games.
MaxBuildSeed == 7

(* ------------------------------ Option --------------------------------- *)

None == << >>
Some(x) == << x >>

(* --------------------------- card catalog ------------------------------ *)

\* enum Color, in declaration order (the order of Color::iter_variants()).
Color_variants == << "White", "Red", "Blue", "Yellow", "Green", "Multi" >>

Color_to_usize(c) ==
    CASE c = "White"  -> 0
      [] c = "Red"    -> 1
      [] c = "Blue"   -> 2
      [] c = "Yellow" -> 3
      [] c = "Green"  -> 4
      [] c = "Multi"  -> 5

\* enum Number, in declaration order (the order of Number::iter_variants()).
Number_variants == << "One", "Two", "Three", "Four", "Five" >>

Number_to_usize(n) ==
    CASE n = "One"   -> 1
      [] n = "Two"   -> 2
      [] n = "Three" -> 3
      [] n = "Four"  -> 4
      [] n = "Five"  -> 5

\* Card::new(n, c).  The id is a fresh Uuid::new_v4(); the model names the
\* k-th Uuid drawn by k, so that ids drawn at different times differ.
Card_new(n, c, k) == [number |-> n, color |-> c, id |-> k]

(* ------------------------------ PlayerInfo ----------------------------- *)

PlayerInfo_new(id, hands) == [player_id |-> id, hands |-> hands]

\* PlayerInfo::card_idx: the Rust index of the first card of the hand with
\* the given id.
card_idx(self, id) ==
    LET hits == { i \in 1..Len(self.hands) : self.hands[i].id = id }
    IN  IF hits = {}
        THEN None
        ELSE Some((CHOOSE i \in hits : \A j \in hits : i <= j) - 1)

\* remove_card as it would be with Vec::swap_remove(idx): the last card
\* takes the place of the removed one.
remove_card_swap(self, idx) ==
    LET n == Len(self.hands)
        moved == [k \in 1..n |-> IF k = idx + 1 THEN self.hands[n] ELSE self.hands[k]]
    IN  [ self |-> [self EXCEPT !.hands = SubSeq(moved, 1, n - 1)],
          ret  |-> self.hands[idx + 1] ]

\* PlayerInfo::remove_card: Vec::remove(idx), which shifts the later cards
\* one place to the left and returns the removed card.
remove_card(self, idx) ==
    [ self |-> [self EXCEPT !.hands =
                    SubSeq(self.hands, 1, idx) \o
                    SubSeq(self.hands, idx + 2, Len(self.hands))],
      ret  |-> self.hands[idx + 1] ]

(* -------------------------------- Field -------------------------------- *)

Field_new == [inner |-> [i \in 0..5 |-> << >>]]

\* Field::add as it would be if it took any higher number (last_number <
\* number), leaving gaps.
Field_add_any_higher(self, card) ==
    LET id == Color_to_usize(card.color)
        last_number == IF Len(self.inner[id]) > 0
                       THEN Number_to_usize(self.inner[id][Len(self.inner[id])].number)
                       ELSE 0
    IN  IF last_number < Number_to_usize(card.number)
        THEN [ self |-> [self EXCEPT !.inner[id] = Append(@, card)],
               ret  |-> TRUE ]
        ELSE [ self |-> self, ret |-> FALSE ]

\* Field::add as it would be without the push: it answers true and the
\* stack stays as it was.
Field_add_no_push(self, card) ==
    LET id == Color_to_usize(card.color)
        last_number == IF Len(self.inner[id]) > 0
                       THEN Number_to_usize(self.inner[id][Len(self.inner[id])].number)
                       ELSE 0
    IN  IF last_number + 1 = Number_to_usize(card.number)
        THEN [self |-> self, ret |-> TRUE]
        ELSE [self |-> self, ret |-> FALSE]

\* Field::add as it would be if the push came before the test: the card is
\* on the stack whatever the answer.
Field_add_push_always(self, card) ==
    LET id == Color_to_usize(card.color)
        last_number == IF Len(self.inner[id]) > 0
                       THEN Number_to_usize(self.inner[id][Len(self.inner[id])].number)
                       ELSE 0
    IN  [ self |-> [self EXCEPT !.inner[id] = Append(@, card)],
          ret  |-> last_number + 1 = Number_to_usize(card.number) ]

Field_add(self, card) ==
    LET id == Color_to_usize(card.color)
        last_number == IF Len(self.inner[id]) > 0
                       THEN Number_to_usize(self.inner[id][Len(self.inner[id])].number)
                       ELSE 0
    IN  IF last_number + 1 = Number_to_usize(card.number)
        THEN [ self |-> [self EXCEPT !.inner[id] = Append(@, card)],
               ret  |-> TRUE ]
        ELSE [ self |-> self, ret |-> FALSE ]

(* --------------------------- deck preparation -------------------------- *)

\* rand's Rng::gen_range(low, high): some value of low..high-1.  The model
\* runs a small congruential generator from a seed; draw numbers the draw.
gen_range(seed, draw, low, high) ==
    low + (((3 * (seed + 1) * (draw + 1) + 7 * draw * draw) % 31) % (high - low))

\* slice::swap(a, b), on Rust indices.
swap(values, a, b) ==
    [k \in 1..Len(values) |->
        IF k = a + 1 THEN values[b + 1]
        ELSE IF k = b + 1 THEN values[a + 1]
        ELSE values[k]]

\* rand's Rng::shuffle(values), entered with i = values.len():
\*     while i >= 2 { i -= 1; values.swap(i, self.gen_range(0, i + 1)); }
RECURSIVE shuffle(_, _, _)
shuffle(values, seed, i) ==
    IF i >= 2
    THEN shuffle(swap(values, i - 1, gen_range(seed, i - 1, 0, i)), seed, i - 1)
    ELSE values

\* The two nested loops of prepare_cards, flattened: pop number k (from 0)
\* goes to hand k % n.  Vec::pop().unwrap() takes the last element.
RECURSIVE deal(_, _, _, _, _)
deal(hands, stack_cards, n, k, total) ==
    IF k < total
    THEN LET i == k % n
             card == stack_cards[Len(stack_cards)]
         IN  deal([hands EXCEPT ![i] = Append(@, card)],
                  SubSeq(stack_cards, 1, Len(stack_cards) - 1), n, k + 1, total)
    ELSE [hands |-> hands, stack |-> stack_cards]

\* The cards prepare_cards creates, in creation order: for each of the
\* first card_kinds colors, one card of each number.
\* The cards as they would be created with the variant test the wrong way
\* round: six colors for the multi variant, five otherwise.
stack_cards_kinds_swapped(is_multi) ==
    LET card_kinds == IF is_multi THEN 6 ELSE 5
        nums == Len(Number_variants)
    IN  [k \in 1..(card_kinds * nums) |->
            Card_new(Number_variants[((k - 1) % nums) + 1],
                     Color_variants[((k - 1) \div nums) + 1], k)]

stack_cards(is_multi) ==
    LET card_kinds == IF is_multi THEN 5 ELSE 6
        nums == Len(Number_variants)
    IN  [k \in 1..(card_kinds * nums) |->
            Card_new(Number_variants[((k - 1) % nums) + 1],
                     Color_variants[((k - 1) \div nums) + 1], k)]

\* prepare_cards as it would be with n < 3 in the test for the hand size:
\* three players get four cards each.
prepare_cards_small_hands_from_three(n, is_multi, seed) ==
    LET created == stack_cards(is_multi)
        shuffled == shuffle(created, seed, Len(created))
        card_num == IF n < 3 THEN 5 ELSE 4
    IN  deal([i \in 0..(n - 1) |-> << >>], shuffled, n, 0, card_num * n)

prepare_cards(n, is_multi, seed) ==
    LET created == stack_cards(is_multi)
        shuffled == shuffle(created, seed, Len(created))
        card_num == IF n <= 3 THEN 5 ELSE 4
    IN  deal([i \in 0..(n - 1) |-> << >>], shuffled, n, 0, card_num * n)

(* -------------------------------- Config ------------------------------- *)

\* Config::new as it would be with n > 6 as the upper test: six players
\* get a Config.
Config_new_upto_six(n) ==
    IF n < 2 \/ n > 6
    THEN None
    ELSE Some([player_num |-> n, is_multi |-> FALSE, is_grand_finale |-> FALSE])

Config_new(n) ==
    IF n < 2 \/ n > 5
    THEN None
    ELSE Some([player_num |-> n, is_multi |-> FALSE, is_grand_finale |-> FALSE])

multi(self, f) == [self EXCEPT !.is_multi = f]

grand_finale(self, f) == [self EXCEPT !.is_grand_finale = f]

build(self, seed) ==
    LET n == self.player_num
        is_multi == self.is_multi
        prepared == prepare_cards(n, is_multi, seed)
    IN  [ players  |-> [i \in DOMAIN prepared.hands |->
                            PlayerInfo_new(i, prepared.hands[i])],
          stack    |-> prepared.stack,
          discards |-> << >>,
          field    |-> Field_new,
          player_num |-> n,
          is_multi |-> is_multi,
          is_grand_finale |-> self.is_grand_finale ]

(* --------------------------------- Game -------------------------------- *)

\* Result<Option<CardInfoInner>, Error>
Ok(v) == [tag |-> "Ok", val |-> v]
Err(e) == [tag |-> "Err", val |-> e]

\* enum CoreError
InvalidCard(id) == [kind |-> "InvalidCard", payload |-> id]
InvalidPlayer(n) == [kind |-> "InvalidPlayer", payload |-> n]
IncorrectInfo(info) == [kind |-> "IncorrectInfo", payload |-> info]

\* enum Action, struct CardInfo, enum CardInfoKind
Tell(info) == [variant |-> "Tell", info |-> info]
Discard(id) == [variant |-> "Discard", id |-> id]
Play(id) == [variant |-> "Play", id |-> id]
CardInfo(kind, player) == [kind |-> kind, player |-> player]
Color(c) == [variant |-> "Color", value |-> c]
Number(n) == [variant |-> "Number", value |-> n]

\* is_valid_player as it would be with <= in place of <: the index one past
\* the last player passes.
is_valid_player_inclusive(self, n) == n <= self.player_num

is_valid_player(self, n) == n < self.player_num

\* construct_info as it would be with find in place of filter: only the
\* first matching card is collected.
construct_info_first_match(self, info) ==
    IF ~is_valid_player(self, info.player)
    THEN None
    ELSE LET hands == self.players[info.player].hands
             is_valid_card(card) ==
                 IF info.kind.variant = "Color"
                 THEN card.color = info.kind.value
                 ELSE card.number = info.kind.value
             hits == { j \in 1..Len(hands) : is_valid_card(hands[j]) }
         IN  Some({ hands[i].id : i \in { j \in hits : \A k \in hits : j <= k } })

construct_info(self, info) ==
    IF ~is_valid_player(self, info.player)
    THEN None
    ELSE LET hands == self.players[info.player].hands
             is_valid_card(card) ==
                 IF info.kind.variant = "Color"
                 THEN card.color = info.kind.value
                 ELSE card.number = info.kind.value
         IN  Some({ hands[i].id : i \in { j \in 1..Len(hands) : is_valid_card(hands[j]) } })

\* get_card! as it would be with the removal made before the check
\* (card_idx(id).unwrap_or(0)): an id that is not in the hand takes the
\* first card out and still reports InvalidCard.
get_card_removes_first(self, player, id) ==
    LET idx == card_idx(self.players[player], id)
    IN  IF idx # None
        THEN LET removed == remove_card(self.players[player], idx[1])
             IN  [ found |-> TRUE,
                   self  |-> [self EXCEPT !.players[player] = removed.self],
                   card  |-> << removed.ret >> ]
        ELSE IF Len(self.players[player].hands) > 0
             THEN [ found |-> FALSE,
                    self  |-> [self EXCEPT !.players[player] =
                                  remove_card(self.players[player], 0).self],
                    card  |-> << >> ]
             ELSE [ found |-> FALSE, self |-> self, card |-> << >> ]

\* get_card! as it would be if the card were looked up in every hand, the
\* acting player's first: a card of another hand is taken from that hand.
get_card_any_hand(self, player, id) ==
    LET holders == { q \in DOMAIN self.players : card_idx(self.players[q], id) # None }
    IN  IF holders # {}
        THEN LET q == IF player \in holders THEN player
                      ELSE CHOOSE h \in holders : \A o \in holders : h <= o
                 removed == remove_card(self.players[q],
                                        card_idx(self.players[q], id)[1])
             IN  [ found |-> TRUE,
                   self  |-> [self EXCEPT !.players[q] = removed.self],
                   card  |-> << removed.ret >> ]
        ELSE [ found |-> FALSE, self |-> self, card |-> << >> ]

\* The macro get_card!: the card is taken out of the acting player's hand,
\* or the call returns early with InvalidCard.
get_card(self, player, id) ==
    LET idx == card_idx(self.players[player], id)
    IN  IF idx # None
        THEN LET removed == remove_card(self.players[player], idx[1])
             IN  [ found |-> TRUE,
                   self  |-> [self EXCEPT !.players[player] = removed.self],
                   card  |-> << removed.ret >> ]
        ELSE [ found |-> FALSE, self |-> self, card |-> << >> ]

\* The arm Action::Discard(id) as it would be if the player drew a card
\* after discarding: the top of the draw stack goes to the hand.
discard_arm_draws(self, player, id) ==
    LET got == get_card(self, player, id)
    IN  IF ~got.found
        THEN [self |-> got.self, ret |-> Err(InvalidCard(id))]
        ELSE LET put == [got.self EXCEPT !.discards = Append(@, got.card[1])]
                 n == Len(put.stack)
             IN  IF n = 0
                 THEN [self |-> put, ret |-> Ok(None)]
                 ELSE [ self |-> [put EXCEPT
                                    !.players[player].hands = Append(@, put.stack[n]),
                                    !.stack = SubSeq(@, 1, n - 1)],
                        ret  |-> Ok(None) ]

\* The arm Action::Discard(id) as it would be if the card were copied out
\* of the hand (Card is Copy) and not removed.
discard_arm_copies(self, player, id) ==
    LET idx == card_idx(self.players[player], id)
    IN  IF idx = None
        THEN [self |-> self, ret |-> Err(InvalidCard(id))]
        ELSE [ self |-> [self EXCEPT !.discards =
                            Append(@, self.players[player].hands[idx[1] + 1])],
               ret  |-> Ok(None) ]

\* The arm Action::Discard(id) as it would be if a card that is not in the
\* hand were passed over in silence: nothing to discard is no error.
discard_arm_ok_when_missing(self, player, id) ==
    LET got == get_card(self, player, id)
    IN  IF ~got.found
        THEN [self |-> got.self, ret |-> Ok(None)]
        ELSE [ self |-> [got.self EXCEPT !.discards = Append(@, got.card[1])],
               ret  |-> Ok(None) ]

\* The arm Action::Discard(id) of the match in process_action.
discard_arm(self, player, id) ==
    LET got == get_card(self, player, id)
    IN  IF ~got.found
        THEN [self |-> got.self, ret |-> Err(InvalidCard(id))]
        ELSE [ self |-> [got.self EXCEPT !.discards = Append(@, got.card[1])],
               ret  |-> Ok(None) ]

\* The arm Action::Play(id) as it would be if the Field were asked before
\* the card leaves the hand: a rejected card stays in the hand.
play_arm_keeps_rejected(self, player, id) ==
    LET got == get_card(self, player, id)
    IN  IF ~got.found
        THEN [self |-> got.self, ret |-> Err(InvalidCard(id))]
        ELSE LET added == Field_add(got.self.field, got.card[1])
             IN  IF ~added.ret
                 THEN [self |-> self, ret |-> Err(InvalidCard(id))]
                 ELSE [ self |-> [got.self EXCEPT !.field = added.self],
                        ret  |-> Ok(None) ]

\* The arm Action::Play(id): the card has left the hand when the Field is
\* asked, and a card the Field rejects is put nowhere.
play_arm(self, player, id) ==
    LET got == get_card(self, player, id)
    IN  IF ~got.found
        THEN [self |-> got.self, ret |-> Err(InvalidCard(id))]
        ELSE LET added == Field_add(got.self.field, got.card[1])
                 after == [got.self EXCEPT !.field = added.self]
             IN  IF ~added.ret
                 THEN [self |-> after, ret |-> Err(InvalidCard(id))]
                 ELSE [self |-> after, ret |-> Ok(None)]

\* The arm Action::Tell as it would be without the cards.is_empty() check.
tell_arm_allows_empty(self, info) ==
    LET cards == construct_info(self, info)
    IN  IF cards # None
        THEN [ self |-> self,
               ret  |-> Ok(Some([ kind   |-> info.kind,
                                  player |-> info.player,
                                  cards  |-> cards[1] ])) ]
        ELSE [self |-> self, ret |-> Err(IncorrectInfo(info))]

\* The arm Action::Tell as it would be if an invalid target were reported
\* as InvalidPlayer(info.player).
tell_arm_invalid_player(self, info) ==
    LET cards == construct_info(self, info)
    IN  IF cards # None
        THEN IF cards[1] = {}
             THEN [self |-> self, ret |-> Err(IncorrectInfo(info))]
             ELSE [ self |-> self,
                    ret  |-> Ok(Some([ kind   |-> info.kind,
                                       player |-> info.player,
                                       cards  |-> cards[1] ])) ]
        ELSE [self |-> self, ret |-> Err(InvalidPlayer(info.player))]

\* The arm Action::Tell(ref info).
tell_arm(self, info) ==
    LET cards == construct_info(self, info)
    IN  IF cards # None
        THEN IF cards[1] = {}
             THEN [self |-> self, ret |-> Err(IncorrectInfo(info))]
             ELSE [ self |-> self,
                    ret  |-> Ok(Some([ kind   |-> info.kind,
                                       player |-> info.player,
                                       cards  |-> cards[1] ])) ]
        ELSE [self |-> self, ret |-> Err(IncorrectInfo(info))]

\* A panic of the thread: indexing a Vec out of its bounds.
Panic == [tag |-> "Panic", val |-> None]

\* The first Vec index the arm of an action evaluates is out of bounds:
\* self.players[player] in get_card! (Discard, Play), and
\* self.players[info.player] in construct_info once info.player has passed
\* is_valid_player (Tell).
players_index_panics(self, player, act) ==
    IF act.variant = "Tell"
    THEN /\ is_valid_player(self, act.info.player)
         /\ act.info.player \notin DOMAIN self.players
    ELSE player \notin DOMAIN self.players

\* process_action as it would be with the acting player checked only in
\* the arms that index self.players[player].
process_action_tell_unchecked(self, player, act) ==
    IF act.variant # "Tell" /\ ~is_valid_player(self, player)
    THEN [self |-> self, ret |-> Err(InvalidPlayer(player))]
    ELSE IF players_index_panics(self, player, act)
    THEN [self |-> self, ret |-> Panic]
    ELSE CASE act.variant = "Discard" -> discard_arm(self, player, act.id)
           [] act.variant = "Play"    -> play_arm(self, player, act.id)
           [] act.variant = "Tell"    -> tell_arm(self, act.info)

\* process_action as it would be if a Tell had to name another player than
\* the one who gives it.
process_action_no_self_tell(self, player, act) ==
    IF ~is_valid_player(self, player)
    THEN [self |-> self, ret |-> Err(InvalidPlayer(player))]
    ELSE IF players_index_panics(self, player, act)
    THEN [self |-> self, ret |-> Panic]
    ELSE CASE act.variant = "Discard" -> discard_arm(self, player, act.id)
           [] act.variant = "Play"    -> play_arm(self, player, act.id)
           [] act.variant = "Tell"    ->
                IF act.info.player = player
                THEN [self |-> self, ret |-> Err(IncorrectInfo(act.info))]
                ELSE tell_arm(self, act.info)

\* Game::process_action.  The thread panics where the code indexes a Vec
\* out of bounds; a call that panics returns nothing to its caller.
process_action(self, player, act) ==
    IF ~is_valid_player(self, player)
    THEN [self |-> self, ret |-> Err(InvalidPlayer(player))]
    ELSE IF players_index_panics(self, player, act)
    THEN [self |-> self, ret |-> Panic]
    ELSE CASE act.variant = "Discard" -> discard_arm(self, player, act.id)
           [] act.variant = "Play"    -> play_arm(self, player, act.id)
           [] act.variant = "Tell"    -> tell_arm(self, act.info)

(* ------------------------------ the program ---------------------------- *)

VARIABLES
    config,   \* Option<Config>: the builder, between Config::new and build
    game,     \* Option<Game>: the Game, once built
    pre,      \* the Game as it was when the last process_action was entered
    call,     \* the arguments of the last process_action
    ret,      \* what the last process_action returned
    ncalls    \* the number of calls made on the Game (process_action, Field::add)

vars == << config, game, pre, call, ret, ncalls >>

Init ==
    /\ config = None
    /\ game = None
    /\ pre = None
    /\ call = None
    /\ ret = None
    /\ ncalls = 0

\* let mut config = Config::new(n);
ConfigNew(n) ==
    /\ game = None
    /\ config' = Config_new(n)
    /\ UNCHANGED << game, pre, call, ret, ncalls >>

\* config.multi(f);
ConfigMulti(f) ==
    /\ game = None
    /\ config # None
    /\ config' = Some(multi(config[1], f))
    /\ UNCHANGED << game, pre, call, ret, ncalls >>

\* config.grand_finale(f);
ConfigGrandFinale(f) ==
    /\ game = None
    /\ config # None
    /\ config' = Some(grand_finale(config[1], f))
    /\ UNCHANGED << game, pre, call, ret, ncalls >>

\* let mut game = config.build();   (build consumes the Config)
ConfigBuild(seed) ==
    /\ game = None
    /\ config # None
    /\ game' = Some(build(config[1], seed))
    /\ config' = None
    /\ UNCHANGED << pre, call, ret, ncalls >>

\* The usize values a caller passes as a player index: every valid index
\* and the first invalid one.
PlayerArgs(self) == 0..self.player_num

Min(a, b) == IF a <= b THEN a ELSE b

\* The id of the last card of a Vec<Card>, if it has one.
LastId(cards) == IF Len(cards) > 0 THEN { cards[Len(cards)].id } ELSE {}

\* The CardId values a caller passes: the ids of the first MaxHandPos cards
\* of each hand, of the top of the draw stack, of the last discard and of
\* the tops of the field, and 0, which is the id of no card of the Game.
CardIdArgs(self) ==
    {0}
    \cup UNION { { self.players[p].hands[k].id :
                     k \in 1..Min(MaxHandPos, Len(self.players[p].hands)) } :
                 p \in DOMAIN self.players }
    \cup LastId(self.stack)
    \cup LastId(self.discards)
    \cup UNION { LastId(self.field.inner[c]) : c \in DOMAIN self.field.inner }

\* Every CardInfoKind.
CardInfoKindArgs ==
    { Color(Color_variants[i]) : i \in DOMAIN Color_variants }
    \cup { Number(Number_variants[i]) : i \in DOMAIN Number_variants }

\* The Action values a caller passes.
ActionArgs(self) ==
    { Discard(id) : id \in CardIdArgs(self) }
    \cup { Play(id) : id \in CardIdArgs(self) }
    \cup { Tell(CardInfo(kind, target)) :
             kind \in CardInfoKindArgs, target \in PlayerArgs(self) }

\* let ret = game.process_action(player, act);
ProcessAction ==
    /\ game # None
    /\ ret = None
    /\ game[1].player_num <= MaxPlayers
    /\ ncalls < MaxCalls
    /\ \E player \in PlayerArgs(game[1]), act \in ActionArgs(game[1]) :
         LET done == process_action(game[1], player, act)
         IN  /\ game' = Some(done.self)
             /\ ret' = Some(done.ret)
             /\ call' = Some([player |-> player, act |-> act])
    /\ pre' = game
    /\ ncalls' = ncalls + 1
    /\ UNCHANGED config

\* drop(ret);   the caller is done with the result and may call again
DropRet ==
    /\ ret # None
    /\ ret' = None
    /\ pre' = None
    /\ call' = None
    /\ UNCHANGED << config, game, ncalls >>

Next ==
    \/ \E n \in 0..MaxN : ConfigNew(n)
    \/ \E f \in BOOLEAN : ConfigMulti(f)
    \/ \E f \in BOOLEAN : ConfigGrandFinale(f)
    \/ \E seed \in 0..MaxSeed : ConfigBuild(seed)
    \/ ProcessAction
    \/ DropRet

Spec == Init /\ [][Next]_vars

(* ============================ the claims ================================ *)

\* The last call has returned and its result is still at hand.
Returned == ret # None

\* The Game after and before the last call, its arguments and its result.
G == game[1]
P == pre[1]
Player == call[1].player
Act == call[1].act
Result == ret[1]

IsErr(r, kind) == r.tag = "Err" /\ r.val.kind = kind
IsOkNone(r) == r.tag = "Ok" /\ r.val = None
IsOkSome(r) == r.tag = "Ok" /\ r.val # None

Hand(self, p) == self.players[p].hands
Ids(cards) == { cards[k].id : k \in DOMAIN cards }
InHand(self, p, id) == id \in Ids(Hand(self, p))
CardOfId(cards, id) == cards[CHOOSE k \in DOMAIN cards : cards[k].id = id]
Without(cards, id) == SelectSeq(cards, LAMBDA c : c.id # id)
ValidPlayer(self, p) == p \in 0..(self.player_num - 1)

\* The rank on top of the field stack of a color, 0 for an empty stack.
TopRank(self, color) ==
    LET s == self.field.inner[Color_to_usize(color)]
    IN  IF Len(s) = 0 THEN 0 ELSE Number_to_usize(s[Len(s)].number)

\* The places of a Game that hold the card with the given id.
Places(self, id) ==
    { << "stack", 0, k >> : k \in { j \in DOMAIN self.stack : self.stack[j].id = id } }
    \cup { << "discards", 0, k >> :
             k \in { j \in DOMAIN self.discards : self.discards[j].id = id } }
    \cup UNION { { << "hand", p, k >> :
                     k \in { j \in DOMAIN Hand(self, p) : Hand(self, p)[j].id = id } } :
                 p \in DOMAIN self.players }
    \cup UNION { { << "field", c, k >> :
                     k \in { j \in DOMAIN self.field.inner[c] :
                               self.field.inner[c][j].id = id } } :
                 c \in DOMAIN self.field.inner }

\* The last call was a Play, by a valid player, of a card of their hand
\* that the Field does not take.
RejectedPlay ==
    /\ Returned
    /\ Act.variant = "Play"
    /\ ValidPlayer(P, Player)
    /\ InHand(P, Player, Act.id)
    /\ LET card == CardOfId(Hand(P, Player), Act.id)
       IN  Number_to_usize(card.number) # TopRank(P, card.color) + 1

(* C1: in every state reachable from Config::build by process_action      *)
(* calls, every card created at deck preparation is in exactly one of the  *)
(* draw stack, a hand, the field and the discards.                         *)
C1_EveryCardInExactlyOnePlace ==
    game # None =>
        \A k \in DOMAIN stack_cards(G.is_multi) :
            Cardinality(Places(G, stack_cards(G.is_multi)[k].id)) = 1

(* C2: a call that fails because the acting player is invalid, because the *)
(* cited card is not in the acting player's hand (Discard or Play), or     *)
(* because the Tell is illegal leaves the whole Game as it was.            *)
C2_ValidationFailureLeavesGame ==
    Returned =>
        (( \/ IsErr(Result, "InvalidPlayer")
           \/ IsErr(Result, "IncorrectInfo")
           \/ /\ IsErr(Result, "InvalidCard")
              /\ Act.variant \in {"Discard", "Play"}
              /\ ~InHand(P, Player, Act.id) )
         => G = P)

\* A Discard citing a card of another player's hand has failed, after an
\* earlier call changed the Game.
C2_Witness ==
    /\ Returned
    /\ ncalls = 2
    /\ Act.variant = "Discard"
    /\ IsErr(Result, "InvalidCard")
    /\ ~InHand(P, Player, Act.id)
    /\ \E q \in DOMAIN P.players : InHand(P, q, Act.id)
    /\ G = P
    /\ G.discards # << >>

(* C3: a Play, by a valid player, of a card of their hand whose rank is    *)
(* not one more than the top of its color's field stack fails with         *)
(* InvalidCard, and the card is gone: the acting hand has lost it, nothing *)
(* else has changed, and the card is in no hand, not on the field, not in  *)
(* the discards and not in the draw stack.                                 *)
C3_RejectedPlayDropsCard ==
    RejectedPlay =>
        /\ IsErr(Result, "InvalidCard")
        /\ Result.val.payload = Act.id
        /\ G = [P EXCEPT !.players[Player].hands = Without(@, Act.id)]
        /\ Len(Hand(G, Player)) = Len(Hand(P, Player)) - 1
        /\ Places(G, Act.id) = {}

C3_Witness ==
    /\ RejectedPlay
    /\ IsErr(Result, "InvalidCard")
    /\ Places(P, Act.id) # {}
    /\ Places(G, Act.id) = {}

(* C4: the acting player is checked first: with player_index >=            *)
(* player_count every action, whatever its variant, card id or Tell        *)
(* target, fails with InvalidPlayer carrying that index.                   *)
C4_InvalidActorFirst ==
    (Returned /\ Player >= P.player_num) =>
        /\ IsErr(Result, "InvalidPlayer")
        /\ Result.val.payload = Player

\* An invalid actor made a Tell that a valid actor could have made.
C4_Witness ==
    /\ Returned
    /\ Player >= P.player_num
    /\ Act.variant = "Tell"
    /\ ValidPlayer(P, Act.info.player)
    /\ construct_info(P, Act.info) # Some({})
    /\ IsErr(Result, "InvalidPlayer")
    /\ Result.val.payload = Player

\* The last call was a Discard or a Play, by a valid player, of a card of
\* their hand.
FoundCard(variant) ==
    /\ Returned
    /\ Act.variant = variant
    /\ ValidPlayer(P, Player)
    /\ InHand(P, Player, Act.id)

\* The card the last call cited, as it lay in the acting hand.
Cited == CardOfId(Hand(P, Player), Act.id)

(* C5: a Discard, by a valid player, of a card of their hand succeeds with *)
(* None: exactly that card leaves the hand, the other cards keep their     *)
(* order, the card becomes the last discard, the hand is one card shorter, *)
(* the discards one longer, and the field is unchanged.                    *)
C5_DiscardMovesCardToDiscards ==
    FoundCard("Discard") =>
        /\ IsOkNone(Result)
        /\ Hand(G, Player) = Without(Hand(P, Player), Act.id)
        /\ G.discards = Append(P.discards, Cited)
        /\ Len(Hand(G, Player)) = Len(Hand(P, Player)) - 1
        /\ Len(G.discards) = Len(P.discards) + 1
        /\ G.field = P.field

\* A card that was neither first nor last in its hand has been discarded.
C5_Witness ==
    /\ FoundCard("Discard")
    /\ IsOkNone(Result)
    /\ Hand(P, Player)[1].id # Act.id
    /\ Hand(P, Player)[Len(Hand(P, Player))].id # Act.id
    /\ G.discards[Len(G.discards)].id = Act.id

\* The last call was a Play, by a valid player, of a card of their hand
\* whose rank is one more than the top of its color's field stack.
AcceptedPlay ==
    /\ FoundCard("Play")
    /\ Number_to_usize(Cited.number) = TopRank(P, Cited.color) + 1

(* C6: a Play, by a valid player, of a card of their hand whose rank is    *)
(* the top rank of its color's field stack (0 if empty) plus one succeeds  *)
(* with None: the card leaves the hand, becomes the top of that stack, and *)
(* the discards are unchanged.                                             *)
C6_AcceptedPlayExtendsField ==
    AcceptedPlay =>
        /\ IsOkNone(Result)
        /\ Hand(G, Player) = Without(Hand(P, Player), Act.id)
        /\ G.field.inner[Color_to_usize(Cited.color)] =
               Append(P.field.inner[Color_to_usize(Cited.color)], Cited)
        /\ G.discards = P.discards

\* A card has been played onto a stack that was not empty.
C6_Witness ==
    /\ AcceptedPlay
    /\ IsOkNone(Result)
    /\ TopRank(P, Cited.color) >= 1
    /\ TopRank(G, Cited.color) = TopRank(P, Cited.color) + 1

\* Whether a card matches a hint.
Matches(card, kind) ==
    \/ kind.variant = "Color" /\ card.color = kind.value
    \/ kind.variant = "Number" /\ card.number = kind.value

\* The ids of the cards of the target's hand that the hint matches.
Matching(self, info) ==
    { Hand(self, info.player)[k].id :
        k \in { j \in DOMAIN Hand(self, info.player) :
                  Matches(Hand(self, info.player)[j], info.kind) } }

\* The last call was a Tell by a valid player.
ToldByValid ==
    /\ Returned
    /\ Act.variant = "Tell"
    /\ ValidPlayer(P, Player)

(* C7: a Tell by a valid player to a valid target whose hint matches k > 0 *)
(* cards of the target's hand returns Some(CardInfoInner) with the kind    *)
(* and the target asked for and with exactly the ids of the k matching     *)
(* cards; the Game is unchanged.                                           *)
C7_TellReturnsMatchingIds ==
    (ToldByValid /\ ValidPlayer(P, Act.info.player) /\ Matching(P, Act.info) # {}) =>
        /\ IsOkSome(Result)
        /\ Result.val[1].kind = Act.info.kind
        /\ Result.val[1].player = Act.info.player
        /\ Result.val[1].cards = Matching(P, Act.info)
        /\ G = P

\* A hint that matches several cards of the target's hand, but not all of
\* them, has been answered.
C7_Witness ==
    /\ ToldByValid
    /\ ValidPlayer(P, Act.info.player)
    /\ Cardinality(Matching(P, Act.info)) >= 2
    /\ Cardinality(Matching(P, Act.info)) < Len(Hand(P, Act.info.player))
    /\ IsOkSome(Result)
    /\ Result.val[1].cards = Matching(P, Act.info)

(* C8: a Tell by a valid player fails with IncorrectInfo if its target is  *)
(* not < player_count, and also if the target is valid but the hint        *)
(* matches no card of the target's hand; no Tell yields a CardInfoInner    *)
(* with an empty cards set.                                                *)
C8_IllegalTellIsIncorrectInfo ==
    /\ ToldByValid =>
         /\ ~ValidPlayer(P, Act.info.player) => IsErr(Result, "IncorrectInfo")
         /\ (ValidPlayer(P, Act.info.player) /\ Matching(P, Act.info) = {})
                => IsErr(Result, "IncorrectInfo")
    /\ (Returned /\ IsOkSome(Result)) => Result.val[1].cards # {}

\* A hint to a valid target that matches none of its cards has failed.
C8_Witness ==
    /\ ToldByValid
    /\ ValidPlayer(P, Act.info.player)
    /\ Hand(P, Act.info.player) # << >>
    /\ Matching(P, Act.info) = {}
    /\ IsErr(Result, "IncorrectInfo")

\* The last call referred to a player index outside [0, player_count): as
\* the acting player, or as the target of a Tell.
RefersToInvalidPlayer ==
    /\ Returned
    /\ \/ ~ValidPlayer(P, Player)
       \/ Act.variant = "Tell" /\ ~ValidPlayer(P, Act.info.player)

(* C9, as claimed: process_action reports InvalidPlayer(index) whenever a  *)
(* referenced player index is outside [0, player_count), be it the acting  *)
(* player or the target of a Tell.                                         *)
C9_InvalidPlayerForActorOrTarget ==
    RefersToInvalidPlayer => IsErr(Result, "InvalidPlayer")

(* C9, amended: process_action reports InvalidPlayer(index) exactly when   *)
(* the acting player index is outside [0, player_count), and index is that *)
(* acting index; a Tell by a valid player whose target is outside          *)
(* [0, player_count) is reported as IncorrectInfo carrying the hint.       *)
C9_InvalidPlayerForActorOnly ==
    Returned =>
        /\ IsErr(Result, "InvalidPlayer") <=> ~ValidPlayer(P, Player)
        /\ IsErr(Result, "InvalidPlayer") => Result.val.payload = Player
        /\ (ToldByValid /\ ~ValidPlayer(P, Act.info.player)) =>
               /\ IsErr(Result, "IncorrectInfo")
               /\ Result.val.payload = Act.info

\* A valid player's Tell to a target outside [0, player_count) has failed
\* with IncorrectInfo.
C9_Witness ==
    /\ ToldByValid
    /\ ~ValidPlayer(P, Act.info.player)
    /\ IsErr(Result, "IncorrectInfo")
    /\ Result.val.payload = Act.info

(* C10: in every reachable state each of the six field stacks holds only   *)
(* cards of its own color, with ranks 1, 2, ..., k from bottom to top, so  *)
(* k <= 5.                                                                 *)
C10_FieldStacksAscendGapless ==
    game # None =>
        /\ DOMAIN G.field.inner = 0..5
        /\ \A c \in DOMAIN G.field.inner :
             /\ Len(G.field.inner[c]) <= 5
             /\ \A k \in DOMAIN G.field.inner[c] :
                  /\ Color_to_usize(G.field.inner[c][k].color) = c
                  /\ Number_to_usize(G.field.inner[c][k].number) = k

\* Some field stack holds two cards.
C10_Witness ==
    /\ game # None
    /\ \E c \in DOMAIN G.field.inner :
         /\ Len(G.field.inner[c]) >= 2
         /\ Number_to_usize(G.field.inner[c][2].number) = 2

(* ------------------- Field::add called on its own ---------------------- *)

\* The Card values a caller holds: Card is Copy and the hands and the draw
\* stack of a Game are public, so any card of them can be passed on.
CardArgs(self) ==
    { self.stack[k] : k \in DOMAIN self.stack }
    \cup UNION { { self.players[p].hands[k] : k \in DOMAIN self.players[p].hands } :
                 p \in DOMAIN self.players }

\* let ret = game.field.add(card);
FieldAdd ==
    /\ game # None
    /\ ret = None
    /\ game[1].player_num <= MaxPlayers
    /\ ncalls < MaxAdds
    /\ \E card \in CardArgs(game[1]) :
         LET done == Field_add(game[1].field, card)
         IN  /\ game' = Some([game[1] EXCEPT !.field = done.self])
             /\ ret' = Some(done.ret)
             /\ call' = Some([card |-> card])
    /\ pre' = game
    /\ ncalls' = ncalls + 1
    /\ UNCHANGED config

NextField ==
    \/ \E n \in 0..MaxN : ConfigNew(n)
    \/ \E f \in BOOLEAN : ConfigMulti(f)
    \/ \E f \in BOOLEAN : ConfigGrandFinale(f)
    \/ \E seed \in 0..MaxSeed : ConfigBuild(seed)
    \/ FieldAdd
    \/ DropRet

\* The program that builds a Game and calls add on its field.
SpecField == Init /\ [][NextField]_vars

\* The card passed to the last Field::add.
AddedCard == call[1].card

(* C11: Field::add(card) answers true exactly when the rank of the card is *)
(* one more than the rank on top of the stack of the card's color (0 for   *)
(* an empty stack); on true the card is appended to that stack and the     *)
(* five other stacks are as they were; on false the whole Field is as it   *)
(* was.  Checked under SpecField.                                          *)
C11_FieldAddTakesNextRankOnly ==
    Returned =>
        LET id == Color_to_usize(AddedCard.color)
        IN  /\ Result = (Number_to_usize(AddedCard.number)
                           = TopRank(P, AddedCard.color) + 1)
            /\ Result =>
                  /\ G.field.inner[id] = Append(P.field.inner[id], AddedCard)
                  /\ \A c \in (DOMAIN P.field.inner) \ {id} :
                        G.field.inner[c] = P.field.inner[c]
                  /\ DOMAIN G.field.inner = DOMAIN P.field.inner
            /\ ~Result => G.field = P.field

\* Field::add has taken a card onto a stack that was not empty, while
\* another stack held a card.
C11_Witness ==
    /\ Returned
    /\ Result = TRUE
    /\ ncalls = MaxAdds
    /\ Len(P.field.inner[Color_to_usize(AddedCard.color)]) > 0
    /\ \E c \in DOMAIN P.field.inner :
          c # Color_to_usize(AddedCard.color) /\ Len(P.field.inner[c]) > 0

(* --------------------- building Games, and no more --------------------- *)

NextBuild ==
    \/ \E n \in 0..MaxN : ConfigNew(n)
    \/ \E f \in BOOLEAN : ConfigMulti(f)
    \/ \E f \in BOOLEAN : ConfigGrandFinale(f)
    \/ \E seed \in 0..MaxBuildSeed : ConfigBuild(seed)

\* The program that configures and builds a Game, for every player count,
\* both flags and every seed up to MaxBuildSeed.
SpecBuild == Init /\ [][NextBuild]_vars

\* The hand size and the deck size the rules give.
HandSize(n) == IF n <= 3 THEN 5 ELSE 4
DeckSize(is_multi) == IF is_multi THEN 25 ELSE 30

(* C12: for every player count of 2..5, both variant flags and every       *)
(* shuffle, the Game that build returns has exactly n hands, each of 5     *)
(* cards for n <= 3 and of 4 for n >= 4, a draw stack of the deck size (30 *)
(* or 25) less n times the hand size (20 for two players without the multi *)
(* flag), no discards and a field of six empty stacks.  Checked under     *)
(* SpecBuild.                                                              *)
C12_BuiltGameShape ==
    game # None =>
        LET n == G.player_num
        IN  /\ DOMAIN G.players = 0..(n - 1)
            /\ \A p \in DOMAIN G.players : Len(Hand(G, p)) = HandSize(n)
            /\ Len(G.stack) = DeckSize(G.is_multi) - n * HandSize(n)
            /\ (n = 2 /\ ~G.is_multi) => Len(G.stack) = 20
            /\ G.discards = << >>
            /\ DOMAIN G.field.inner = 0..5
            /\ \A c \in DOMAIN G.field.inner : G.field.inner[c] = << >>

\* Games of three and of four players have been built: three hands of
\* five cards, four hands of four.
C12_Witness ==
    /\ game # None
    /\ G.player_num = 3
    /\ G.is_multi
    /\ Len(G.stack) = 10
    /\ \A p \in 0..2 : Len(Hand(G, p)) = 5

\* The places of the hands and of the draw stack, and the card at a place.
DealtPlaces(self) ==
    { << "stack", 0, k >> : k \in DOMAIN self.stack }
    \cup UNION { { << "hand", p, k >> : k \in DOMAIN Hand(self, p) } :
                 p \in DOMAIN self.players }
CardAt(self, place) ==
    IF place[1] = "stack" THEN self.stack[place[3]]
    ELSE Hand(self, place[2])[place[3]]

\* The colors of a variant: the multi variant plays without the Multi color.
VariantColors(is_multi) ==
    {"White", "Red", "Blue", "Yellow", "Green"}
    \cup (IF is_multi THEN {} ELSE {"Multi"})

(* C13: the cards build deals, over all hands and the draw stack, number   *)
(* exactly 30 without the multi flag (six colors, Multi among them) and 25 *)
(* with it (no Multi card); every pair of a rank and a color of the        *)
(* variant is there exactly once, and no CardId is there twice.  Checked  *)
(* under SpecBuild.                                                        *)
C13_DealtCardsAreTheDeck ==
    game # None =>
        LET places == DealtPlaces(G)
        IN  /\ Cardinality(places) = DeckSize(G.is_multi)
            /\ \A pl \in places : CardAt(G, pl).color \in VariantColors(G.is_multi)
            /\ \A color \in VariantColors(G.is_multi) :
                 \A i \in DOMAIN Number_variants :
                    Cardinality({ pl \in places :
                                    /\ CardAt(G, pl).color = color
                                    /\ CardAt(G, pl).number = Number_variants[i] }) = 1
            /\ \A pl1, pl2 \in places :
                  CardAt(G, pl1).id = CardAt(G, pl2).id => pl1 = pl2

\* A five-player Game of the multi variant and a seed other than the first
\* has been built: the shuffle has moved the Green Five into a hand.
C13_Witness ==
    /\ game # None
    /\ G.is_multi
    /\ G.player_num = 5
    /\ Len(G.stack) = 5
    /\ \E p \in DOMAIN G.players : \E k \in DOMAIN Hand(G, p) :
          Hand(G, p)[k].color = "Green" /\ Hand(G, p)[k].number = "Five"

(* C14: Config::new(n) returns a Config exactly when 2 <= n <= 5 and       *)
(* nothing for every other n (0, 1 and 6 among them), so that every Game   *)
(* built has a player count of 2..5; the Config returned has the multi and *)
(* the grand-finale flag both false.  Checked under SpecBuild.             *)
C14_ConfigNewOnlyTwoToFive ==
    /\ [](game # None => G.player_num \in 2..5)
    /\ [](config # None => config[1].player_num \in 2..5)
    /\ [][\A n \in 0..MaxN :
            ConfigNew(n) =>
                /\ (config' # None) <=> (2 <= n /\ n <= 5)
                /\ config' # None =>
                      config'[1] = [player_num |-> n, is_multi |-> FALSE,
                                    is_grand_finale |-> FALSE]]_vars

\* Config::new(5) has returned a Config, with both flags false.
C14_Witness ==
    /\ game = None
    /\ config # None
    /\ config[1].player_num = 5
    /\ ~config[1].is_multi
    /\ ~config[1].is_grand_finale

\* A Vec<Card> without its k-th card.
RemoveAt(cards, k) == SubSeq(cards, 1, k - 1) \o SubSeq(cards, k + 1, Len(cards))

(* C15: no hand ever gains a card: after a process_action call each hand   *)
(* is the hand before the call, or that hand with exactly one card taken   *)
(* out; and no process_action call changes the draw stack.                 *)
C15_HandsOnlyShrinkStackStays ==
    Returned =>
        /\ G.stack = P.stack
        /\ DOMAIN G.players = DOMAIN P.players
        /\ \A p \in DOMAIN P.players :
              \/ Hand(G, p) = Hand(P, p)
              \/ \E k \in DOMAIN Hand(P, p) : Hand(G, p) = RemoveAt(Hand(P, p), k)

\* A second call has taken a card that was not the first out of a hand,
\* which is now two short of the dealt hand, and the draw stack is as dealt.
C15_Witness ==
    /\ Returned
    /\ ValidPlayer(P, Player)
    /\ Len(Hand(G, Player)) = HandSize(G.player_num) - 2
    /\ Hand(G, Player) = RemoveAt(Hand(P, Player), 2)
    /\ Len(G.stack) = DeckSize(G.is_multi) - G.player_num * HandSize(G.player_num)

(* C16: Discard and Play look the cited card up in the acting player's     *)
(* hand only: a call by a valid player p that cites a card id not in p's   *)
(* hand (an id held by another player, on the field, in the discards or in *)
(* the draw stack) fails with InvalidCard of that id, and no Discard or    *)
(* Play by p changes the hand of any other player.                         *)
C16_OnlyTheActorsHandIsSearched ==
    (Returned /\ Act.variant \in {"Discard", "Play"} /\ ValidPlayer(P, Player)) =>
        /\ ~InHand(P, Player, Act.id) =>
              /\ IsErr(Result, "InvalidCard")
              /\ Result.val.payload = Act.id
        /\ \A q \in DOMAIN P.players :
              q # Player => Hand(G, q) = Hand(P, q)

\* A Play citing a card of another player's hand has failed with
\* InvalidCard, and the card is still in that hand.
C16_Witness ==
    /\ Returned
    /\ Act.variant = "Play"
    /\ ValidPlayer(P, Player)
    /\ \E q \in DOMAIN P.players :
          q # Player /\ InHand(P, q, Act.id) /\ InHand(G, q, Act.id)
    /\ IsErr(Result, "InvalidCard")

(* C17: in every reachable state, for every player index and every action, *)
(* out-of-range indices and unknown card ids among them, process_action    *)
(* completes without an out-of-bounds access or panic and returns Ok or    *)
(* one of the three typed errors; the Game has as many PlayerInfo entries  *)
(* as its player count says, and entry i has player_id i.                  *)
C17_NoPanicAndPlayersIndexed ==
    /\ game # None =>
          /\ DOMAIN G.players = 0..(G.player_num - 1)
          /\ \A i \in DOMAIN G.players : G.players[i].player_id = i
          /\ DOMAIN G.field.inner = 0..5
    /\ Returned =>
          /\ Result.tag \in {"Ok", "Err"}
          /\ Result.tag = "Err" =>
                Result.val.kind \in {"InvalidCard", "InvalidPlayer", "IncorrectInfo"}

\* After a call that changed the Game, a Tell by a valid player naming an
\* index past the last player has returned a typed error.
C17_Witness ==
    /\ Returned
    /\ ncalls = MaxCalls
    /\ G.discards # << >>
    /\ Act.variant = "Tell"
    /\ ValidPlayer(P, Player)
    /\ Act.info.player = P.player_num
    /\ Result.tag = "Err"

\* The sum of the lengths of the sequences f[x], x in dom.
RECURSIVE SumOfLens(_, _)
SumOfLens(f, dom) ==
    IF dom = {} THEN 0
    ELSE LET x == CHOOSE y \in dom : TRUE
         IN  Len(f[x]) + SumOfLens(f, dom \ {x})

\* The number of cards in all hands, and on the field.
HandCards(self) ==
    SumOfLens([p \in DOMAIN self.players |-> Hand(self, p)], DOMAIN self.players)
FieldCards(self) == SumOfLens(self.field.inner, DOMAIN self.field.inner)

\* The ids of all cards a Game holds, in whatever container.
HeldIds(self) ==
    Ids(self.stack) \cup Ids(self.discards)
    \cup UNION { Ids(Hand(self, p)) : p \in DOMAIN self.players }
    \cup UNION { Ids(self.field.inner[c]) : c \in DOMAIN self.field.inner }

(* C18: no CardId is in more than one place over all hands, the draw       *)
(* stack, the discards and the field: process_action copies no card, and   *)
(* a rejected Play does not either.  There are as many different ids as    *)
(* there are cards in the containers.                                      *)
C18_NoCardIdTwice ==
    game # None =>
        Cardinality(HeldIds(G)) =
            Len(G.stack) + Len(G.discards) + HandCards(G) + FieldCards(G)

\* A Discard has put a card on the discards, and then a rejected Play has
\* left its card in no place at all.
C18_Witness ==
    /\ RejectedPlay
    /\ G.discards # << >>
    /\ Cardinality(Places(P, Act.id)) = 1
    /\ Places(G, Act.id) = {}

(* C20: process_action does not require the target of a Tell to differ     *)
(* from the acting player and enforces no turn order: a Tell by a valid    *)
(* player p naming p, with a hint that matches at least one card of p's    *)
(* own hand, succeeds and returns the matching ids; and a valid player is  *)
(* never turned away as InvalidPlayer, whoever acted before.               *)
C20_SelfTellAndNoTurnOrder ==
    /\ (ToldByValid /\ Act.info.player = Player /\ Matching(P, Act.info) # {}) =>
          /\ IsOkSome(Result)
          /\ Result.val[1].player = Player
          /\ Result.val[1].cards = Matching(P, Act.info)
    /\ (Returned /\ ValidPlayer(P, Player)) => ~IsErr(Result, "InvalidPlayer")

\* A player who has just given a card away (the hand is one short of the
\* dealt hand) acts again at once, with a Tell about their own hand, and
\* it succeeds.
C20_Witness ==
    /\ ToldByValid
    /\ Act.info.player = Player
    /\ IsOkSome(Result)
    /\ Len(Hand(P, Player)) = HandSize(P.player_num) - 1
    /\ \A q \in DOMAIN P.players :
          q # Player => Len(Hand(P, q)) = HandSize(P.player_num)

(* ------------------- playing until the hands are empty ----------------- *)

\* The players who still hold a card.
Holding(self) == { p \in DOMAIN self.players : Len(self.players[p].hands) > 0 }

\* let _ = game.process_action(p, Action::Discard(id));
\* where p is the first player who still holds a card and id is the id of
\* the first card of p's hand.  The result is dropped at once.
DiscardFirst ==
    /\ game # None
    /\ ret = None
    /\ game[1].player_num <= MaxPlayers
    /\ Holding(game[1]) # {}
    /\ LET p == CHOOSE h \in Holding(game[1]) : \A o \in Holding(game[1]) : h <= o
           id == game[1].players[p].hands[1].id
       IN  game' = Some(process_action(game[1], p, Discard(id)).self)
    /\ ncalls' = ncalls + 1
    /\ UNCHANGED << config, pre, call, ret >>

\* let ret = game.process_action(player, act);   the last call of the run
LastCall ==
    /\ game # None
    /\ ret = None
    /\ game[1].player_num <= MaxPlayers
    /\ \E player \in PlayerArgs(game[1]), act \in ActionArgs(game[1]) :
         LET done == process_action(game[1], player, act)
         IN  /\ game' = Some(done.self)
             /\ ret' = Some(done.ret)
             /\ call' = Some([player |-> player, act |-> act])
    /\ pre' = game
    /\ ncalls' = ncalls + 1
    /\ UNCHANGED config

NextDrain ==
    \/ \E n \in 0..MaxN : ConfigNew(n)
    \/ \E f \in BOOLEAN : ConfigMulti(f)
    \/ \E f \in BOOLEAN : ConfigGrandFinale(f)
    \/ \E seed \in 0..MaxSeed : ConfigBuild(seed)
    \/ DiscardFirst
    \/ LastCall

\* The program that builds a Game, has the players discard their hands
\* card by card, the first player first, and after any number of these
\* discards makes one more call, with any arguments.
SpecDrain == Init /\ [][NextDrain]_vars

\* All hands of a Game are empty.
AllHandsEmpty(self) == \A p \in DOMAIN self.players : Hand(self, p) = << >>

(* C19: every Discard or Play that finds its card makes the number of      *)
(* cards in all hands one less and no call makes it more, so that a run    *)
(* has at most player_count * hand_size such calls; once a player's hand   *)
(* is empty, every Discard and Play by that player fails with InvalidCard  *)
(* and every Tell naming that player fails with IncorrectInfo; once all    *)
(* hands are empty no call succeeds or changes the Game.  Checked under    *)
(* SpecDrain, where every call before the last finds its card.             *)
C19_HandsRunOut ==
    /\ (game # None /\ ~Returned) =>
          HandCards(G) + ncalls = G.player_num * HandSize(G.player_num)
    /\ Returned =>
          /\ HandCards(G) <= HandCards(P)
          /\ (FoundCard("Discard") \/ FoundCard("Play")) =>
                /\ HandCards(G) = HandCards(P) - 1
                /\ HandCards(G) + ncalls = G.player_num * HandSize(G.player_num)
          /\ ( /\ ValidPlayer(P, Player)
               /\ Act.variant \in {"Discard", "Play"}
               /\ Hand(P, Player) = << >> ) => IsErr(Result, "InvalidCard")
          /\ ( /\ ToldByValid
               /\ ValidPlayer(P, Act.info.player)
               /\ Hand(P, Act.info.player) = << >> ) => IsErr(Result, "IncorrectInfo")
          /\ AllHandsEmpty(P) => (Result.tag = "Err" /\ G = P)

\* Every card of every hand has been discarded, and a Discard by a valid
\* player, citing the last card discarded, has failed with InvalidCard.
C19_Witness ==
    /\ Returned
    /\ AllHandsEmpty(P)
    /\ ncalls = P.player_num * HandSize(P.player_num) + 1
    /\ ValidPlayer(P, Player)
    /\ Act.variant = "Discard"
    /\ Act.id # 0
    /\ IsErr(Result, "InvalidCard")

====
